---- MODULE Spec2Model ----
(***************************************************************************)
(* Model of the Windows shim of flutter_p2p_connection:                    *)
(*   windows/flutter_p2p_connection_plugin.cpp  (registration, dispatch)   *)
(*   windows/utils.h                            (UTF-16 -> UTF-8)          *)
(*   windows/constants.h                        (channel names)            *)
(* Wide strings are sequences of UTF-16 code units, narrow strings that    *)
(* the code builds are sequences of bytes.  Method names, error codes and  *)
(* messages, which the code only compares or passes through, are strings.  *)
(***************************************************************************)
EXTENDS Integers, Sequences, FiniteSets, TLC

\* Number of engines (each owns one plugin registrar) the host starts.
MaxRegistrars == 2

Registrars == 1..MaxRegistrars

METHOD_CHANNEL_NAME == "flutter_p2p_connection"
CLIENT_STATE_EVENT_CHANNEL_NAME == "flutter_p2p_connection_clientState"

\* Channels on which the engine may deliver a message to a messenger.
ChannelNames == {METHOD_CHANNEL_NAME, CLIENT_STATE_EVENT_CHANNEL_NAME}

\* Method names the host application may send.
Methods == {"getPlatformVersion", "GetPlatformVersion", "getPlatformVersion2",
            "", "checkBluetoothEnabled", "ble#scan", "unknownMethod"}

\* method_call.arguments(): an opaque value the dispatcher never reads.
Arguments == {"null", "map"}

\* Outcomes of RtlGetVersion(&os_info): the NTSTATUS it returns and the
\* three DWORD fields it fills in on success.
OsStates ==
    { [status |-> 0, major |-> 10, minor |-> 0, build |-> 22631],
      [status |-> 0, major |-> 6, minor |-> 1, build |-> 7601],
      [status |-> 0, major |-> 0, minor |-> 0, build |-> 2147483647],
      [status |-> 1, major |-> 0, minor |-> 0, build |-> 0],
      [status |-> -1073741811, major |-> 0, minor |-> 0, build |-> 0] }

\* A null plugin pointer; plugin instances are numbered from 1.
NoPlugin == 0
\* No registrar; registrars are numbered from 1.
NoRegistrar == 0
\* A null channel pointer.
NoChannel == [messenger |-> NoRegistrar, name |-> "none"]

-----------------------------------------------------------------------------
(* String building *)

\* operator<<(std::wostream&, unsigned long): decimal digits, no sign.
RECURSIVE WDigits(_)
WDigits(n) ==
    IF n < 10 THEN <<48 + n>>
    ELSE WDigits(n \div 10) \o <<48 + (n % 10)>>

\* L"Windows "
WWindows == <<87, 105, 110, 100, 111, 119, 115, 32>>
\* L"."
WDot == <<46>>
\* L" Build "
WBuild == <<32, 66, 117, 105, 108, 100, 32>>

\* Variant: minor and build streamed in the wrong order.
VersionWStringSwapped(os) ==
    WWindows \o WDigits(os.major) \o WDot \o WDigits(os.build)
             \o WBuild \o WDigits(os.minor)

\* ss << L"Windows " << major << L"." << minor << L" Build " << build
VersionWString(os) ==
    WWindows \o WDigits(os.major) \o WDot \o WDigits(os.minor)
             \o WBuild \o WDigits(os.build)

IsHighSurrogate(u) == u >= 55296 /\ u <= 56319
IsLowSurrogate(u) == u >= 56320 /\ u <= 57343

\* UTF-8 bytes of one code point.
Utf8(cp) ==
    IF cp < 128 THEN <<cp>>
    ELSE IF cp < 2048 THEN <<192 + (cp \div 64), 128 + (cp % 64)>>
    ELSE IF cp < 65536 THEN
        <<224 + (cp \div 4096), 128 + ((cp \div 64) % 64), 128 + (cp % 64)>>
    ELSE <<240 + (cp \div 262144), 128 + ((cp \div 4096) % 64),
           128 + ((cp \div 64) % 64), 128 + (cp % 64)>>

\* WideCharToMultiByte(CP_UTF8, 0, ...): surrogate pairs are combined, an
\* unpaired surrogate becomes U+FFFD.
RECURSIVE WideCharToMultiByte(_)
WideCharToMultiByte(w) ==
    IF w = <<>> THEN <<>>
    ELSE IF IsHighSurrogate(w[1]) /\ Len(w) >= 2 /\ IsLowSurrogate(w[2]) THEN
        Utf8(65536 + (w[1] - 55296) * 1024 + (w[2] - 56320))
            \o WideCharToMultiByte(SubSeq(w, 3, Len(w)))
    ELSE IF IsHighSurrogate(w[1]) \/ IsLowSurrogate(w[1]) THEN
        Utf8(65533) \o WideCharToMultiByte(Tail(w))
    ELSE Utf8(w[1]) \o WideCharToMultiByte(Tail(w))

\* utils::wstring_to_string
wstring_to_string(wstr) ==
    IF wstr = <<>> THEN <<>> ELSE WideCharToMultiByte(wstr)

-----------------------------------------------------------------------------
(* Results delivered on a MethodResult sink *)

Success(value) == [kind |-> "Success", value |-> value]
Error(code, message) == [kind |-> "Error", code |-> code, message |-> message]
NotImplemented == [kind |-> "NotImplemented"]

\* Variant: the status tested as NT_SUCCESS(status), i.e. status >= 0.
HandleMethodCallNtSuccess(method, arguments, os) ==
    IF method = "getPlatformVersion" THEN
        IF os.status >= 0 THEN
            [queried |-> TRUE,
             responses |-> <<Success(wstring_to_string(VersionWString(os)))>>,
             sink |-> "destroyed"]
        ELSE
            [queried |-> TRUE,
             responses |-> <<Error("VERSION_ERROR", "Failed to get Windows version.")>>,
             sink |-> "destroyed"]
    ELSE
        [queried |-> FALSE, responses |-> <<NotImplemented>>, sink |-> "destroyed"]

\* Variant: the commented-out "ble#" route enabled, handing the sink to a
\* manager that answers later.
HandleMethodCallBleRouted(method, arguments, os) ==
    IF method = "getPlatformVersion" THEN
        IF os.status = 0 THEN
            [queried |-> TRUE,
             responses |-> <<Success(wstring_to_string(VersionWString(os)))>>,
             sink |-> "destroyed"]
        ELSE
            [queried |-> TRUE,
             responses |-> <<Error("VERSION_ERROR", "Failed to get Windows version.")>>,
             sink |-> "destroyed"]
    ELSE IF method = "ble#scan" THEN
        [queried |-> FALSE, responses |-> <<>>, sink |-> "held"]
    ELSE
        [queried |-> FALSE, responses |-> <<NotImplemented>>, sink |-> "destroyed"]

\* Variant: an unknown method answered with an error instead of
\* NotImplemented.
HandleMethodCallErrorElse(method, arguments, os) ==
    IF method = "getPlatformVersion" THEN
        IF os.status = 0 THEN
            [queried |-> TRUE,
             responses |-> <<Success(wstring_to_string(VersionWString(os)))>>,
             sink |-> "destroyed"]
        ELSE
            [queried |-> TRUE,
             responses |-> <<Error("VERSION_ERROR", "Failed to get Windows version.")>>,
             sink |-> "destroyed"]
    ELSE
        [queried |-> FALSE,
         responses |-> <<Error("NOT_IMPLEMENTED", "Method not implemented.")>>,
         sink |-> "destroyed"]

\* Variant: the final `else` lost, so NotImplemented follows every reply.
HandleMethodCallFallThrough(method, arguments, os) ==
    IF method = "getPlatformVersion" THEN
        IF os.status = 0 THEN
            [queried |-> TRUE,
             responses |-> <<Success(wstring_to_string(VersionWString(os))),
                             NotImplemented>>,
             sink |-> "destroyed"]
        ELSE
            [queried |-> TRUE,
             responses |-> <<Error("VERSION_ERROR", "Failed to get Windows version."),
                             NotImplemented>>,
             sink |-> "destroyed"]
    ELSE
        [queried |-> FALSE, responses |-> <<NotImplemented>>, sink |-> "destroyed"]

\* FlutterP2pConnectionPlugin::HandleMethodCall.  `queried` tells whether
\* RtlGetVersion was called, `responses` is what was sent on the result sink
\* before returning, in order, and `sink` what became of the unique_ptr to the
\* sink when the function returned.
HandleMethodCall(method, arguments, os) ==
    IF method = "getPlatformVersion" THEN
        IF os.status = 0 THEN
            [queried |-> TRUE,
             responses |-> <<Success(wstring_to_string(VersionWString(os)))>>,
             sink |-> "destroyed"]
        ELSE
            [queried |-> TRUE,
             responses |-> <<Error("VERSION_ERROR", "Failed to get Windows version.")>>,
             sink |-> "destroyed"]
    ELSE
        [queried |-> FALSE,
         responses |-> <<NotImplemented>>,
         sink |-> "destroyed"]

\* What a call through a dangling plugin_pointer may do: anything.
DanglingOutcomes ==
    { [queried |-> q, responses |-> rs, sink |-> s] :
        q \in BOOLEAN,
        rs \in {<<>>, <<NotImplemented>>, <<NotImplemented, NotImplemented>>},
        s \in {"destroyed", "held"} }

-----------------------------------------------------------------------------
(* State *)

VARIABLES
    pc,            \* position of the platform thread: "idle" or a line of RegisterWithRegistrar
    cur,           \* the registrar argument of the running RegisterWithRegistrar
    plugin,        \* local unique_ptr `plugin` of RegisterWithRegistrar
    channel,       \* local unique_ptr `channel` of RegisterWithRegistrar
    registrantRan, \* registrars for which the host has called the C API entry point
    regAlive,      \* registrar objects that exist
    plugins,       \* registrar -> plugin instances it owns (AddPlugin)
    handlers,      \* registrar -> handlers set on its messenger
    alive,         \* constructed and not yet destructed plugin instances
    nextId,        \* number of plugin instances constructed so far
    initCount,     \* calls of winrt::init_apartment
    uninitCount,   \* calls of winrt::uninit_apartment
    lastCall,      \* observer: the last message the engine delivered, and what came of it
    seen           \* observer: OS state -> responses getPlatformVersion has given under it

vars == <<pc, cur, plugin, channel, registrantRan, regAlive, plugins, handlers,
          alive, nextId, initCount, uninitCount, lastCall, seen>>

NoCall ==
    [valid |-> FALSE, registrar |-> NoRegistrar, channel |-> "none",
     method |-> "", arguments |-> "null", os |-> [status |-> 0, major |-> 0, minor |-> 0, build |-> 0],
     registered |-> FALSE, owned |-> {},
     handled |-> FALSE, target |-> NoPlugin, targetAlive |-> FALSE,
     received |-> "", queried |-> FALSE, responses |-> <<>>, sink |-> "destroyed"]

Init ==
    /\ pc = "idle"
    /\ cur = NoRegistrar
    /\ plugin = NoPlugin
    /\ channel = NoChannel
    /\ registrantRan = [r \in Registrars |-> FALSE]
    /\ regAlive = [r \in Registrars |-> TRUE]
    /\ plugins = [r \in Registrars |-> {}]
    /\ handlers = [r \in Registrars |-> {}]
    /\ alive = {}
    /\ nextId = 0
    /\ initCount = 0
    /\ uninitCount = 0
    /\ lastCall = NoCall
    /\ seen = [os \in OsStates |-> {}]

-----------------------------------------------------------------------------
(* RegisterWithRegistrar, line by line *)

\* c_api.cpp:7-12 enters RegisterWithRegistrar; plugin.cpp:9 constructs the
\* plugin, whose constructor (22-30) calls winrt::init_apartment().
RegConstructPlugin(r) ==
    /\ pc = "idle"
    /\ regAlive[r]
    /\ ~registrantRan[r]
    /\ registrantRan' = [registrantRan EXCEPT ![r] = TRUE]
    /\ cur' = r
    /\ nextId' = nextId + 1
    /\ plugin' = nextId + 1
    /\ alive' = alive \cup {nextId + 1}
    /\ initCount' = initCount + 1
    /\ pc' = "L10"
    /\ UNCHANGED <<channel, regAlive, plugins, handlers, uninitCount, lastCall, seen>>

\* Variant: the channel created under another of the names of constants.h.
RegCreateChannelWrongName ==
    /\ pc = "L10"
    /\ channel' = [messenger |-> cur, name |-> CLIENT_STATE_EVENT_CHANNEL_NAME]
    /\ pc' = "L14"
    /\ UNCHANGED <<cur, plugin, registrantRan, regAlive, plugins, handlers, alive,
                   nextId, initCount, uninitCount, lastCall, seen>>

\* plugin.cpp:10-12: the channel object on the registrar's messenger.
RegCreateChannel ==
    /\ pc = "L10"
    /\ channel' = [messenger |-> cur, name |-> METHOD_CHANNEL_NAME]
    /\ pc' = "L14"
    /\ UNCHANGED <<cur, plugin, registrantRan, regAlive, plugins, handlers, alive,
                   nextId, initCount, uninitCount, lastCall, seen>>

\* MethodChannel::SetMethodCallHandler: the messenger keeps one handler per
\* channel name; the lambda captures plugin.get().
SetMethodCallHandler(hs, name, pointer) ==
    {h \in hs : h.channel # name} \cup {[channel |-> name, plugin_pointer |-> pointer]}

\* Variant: the handler never set.
RegSetHandlerSkipped ==
    /\ pc = "L14"
    /\ pc' = "L19"
    /\ UNCHANGED <<cur, plugin, channel, registrantRan, regAlive, plugins, handlers,
                   alive, nextId, initCount, uninitCount, lastCall, seen>>

\* plugin.cpp:14-17
RegSetHandler ==
    /\ pc = "L14"
    /\ handlers' = [handlers EXCEPT ![channel.messenger] =
                        SetMethodCallHandler(@, channel.name, plugin)]
    /\ pc' = "L19"
    /\ UNCHANGED <<cur, plugin, channel, registrantRan, regAlive, plugins, alive,
                   nextId, initCount, uninitCount, lastCall, seen>>

\* Variant: the plugin never handed to the registrar, so the local
\* unique_ptr still owns it when the function returns.
RegAddPluginNotMoved ==
    /\ pc = "L19"
    /\ pc' = "L20"
    /\ UNCHANGED <<cur, plugin, channel, registrantRan, regAlive, plugins, handlers,
                   alive, nextId, initCount, uninitCount, lastCall, seen>>

\* plugin.cpp:19: registrar->AddPlugin(std::move(plugin))
RegAddPlugin ==
    /\ pc = "L19"
    /\ plugins' = [plugins EXCEPT ![cur] = @ \cup {plugin}]
    /\ plugin' = NoPlugin
    /\ pc' = "L20"
    /\ UNCHANGED <<cur, channel, registrantRan, regAlive, handlers, alive,
                   nextId, initCount, uninitCount, lastCall, seen>>

\* plugin.cpp:20: the locals go out of scope, `channel` first and then
\* `plugin`; a unique_ptr that still owns its object destroys it, and the
\* plugin's destructor (32-36) calls winrt::uninit_apartment().
RegReturn ==
    /\ pc = "L20"
    /\ channel' = NoChannel
    /\ IF plugin # NoPlugin
       THEN /\ alive' = alive \ {plugin}
            /\ uninitCount' = uninitCount + 1
       ELSE UNCHANGED <<alive, uninitCount>>
    /\ plugin' = NoPlugin
    /\ cur' = NoRegistrar
    /\ pc' = "idle"
    /\ UNCHANGED <<registrantRan, regAlive, plugins, handlers, nextId, initCount,
                   lastCall, seen>>

-----------------------------------------------------------------------------
(* Teardown and dispatch *)

\* Variant: a destructor that does not call winrt::uninit_apartment().
DestroyRegistrarNoUninit(r) ==
    /\ pc = "idle"
    /\ regAlive[r]
    /\ regAlive' = [regAlive EXCEPT ![r] = FALSE]
    /\ alive' = alive \ plugins[r]
    /\ plugins' = [plugins EXCEPT ![r] = {}]
    /\ handlers' = [handlers EXCEPT ![r] = {}]
    /\ UNCHANGED <<pc, cur, plugin, channel, registrantRan, nextId, initCount,
                   uninitCount, lastCall, seen>>

\* The registrar is destroyed with its engine: it destroys the plugins it
\* owns (each destructor, plugin.cpp:32-36, calls winrt::uninit_apartment())
\* and its messenger with the handlers set on it.
DestroyRegistrar(r) ==
    /\ pc = "idle"
    /\ regAlive[r]
    /\ regAlive' = [regAlive EXCEPT ![r] = FALSE]
    /\ alive' = alive \ plugins[r]
    /\ uninitCount' = uninitCount + Cardinality(plugins[r] \cap alive)
    /\ plugins' = [plugins EXCEPT ![r] = {}]
    /\ handlers' = [handlers EXCEPT ![r] = {}]
    /\ UNCHANGED <<pc, cur, plugin, channel, registrantRan, nextId, initCount,
                   lastCall, seen>>

\* The lambda of plugin.cpp:15-17 run for one incoming call.
Forward(h, r, ch, method, arguments, os, out) ==
    [valid |-> TRUE, registrar |-> r, channel |-> ch, method |-> method,
     arguments |-> arguments, os |-> os,
     registered |-> registrantRan[r], owned |-> plugins[r], handled |-> TRUE,
     target |-> h.plugin_pointer, targetAlive |-> h.plugin_pointer \in alive,
     received |-> method, queried |-> out.queried,
     responses |-> out.responses, sink |-> out.sink]

\* Variant: the version record kept in a static and queried only once, so a
\* later call answers from the record of the first query.
DeliverStaleOs(r, ch, method, arguments, os) ==
    /\ pc = "idle"
    /\ regAlive[r]
    /\ LET hs == {h \in handlers[r] : h.channel = ch}
           used == IF lastCall.handled /\ lastCall.queried THEN lastCall.os ELSE os IN
       IF hs = {} THEN
          /\ lastCall' = [NoCall EXCEPT !.valid = TRUE, !.registrar = r,
                             !.channel = ch, !.registered = registrantRan[r],
                             !.owned = plugins[r]]
          /\ seen' = seen
       ELSE
          \E h \in hs :
            LET out == HandleMethodCall(method, arguments, used) IN
               /\ lastCall' = [Forward(h, r, ch, method, arguments, os, out)
                                  EXCEPT !.os = used]
               /\ seen' = IF method = "getPlatformVersion"
                          THEN [seen EXCEPT ![os] = @ \cup {out.responses}]
                          ELSE seen
    /\ UNCHANGED <<pc, cur, plugin, channel, registrantRan, regAlive, plugins,
                   handlers, alive, nextId, initCount, uninitCount>>

\* The engine delivers a method call on channel ch of registrar r's
\* messenger; the messenger runs the handler set for ch, if any.
Deliver(r, ch, method, arguments, os) ==
    /\ pc = "idle"
    /\ regAlive[r]
    /\ LET hs == {h \in handlers[r] : h.channel = ch} IN
       IF hs = {} THEN
          \* no handler: the message is not decoded and gets an empty reply
          /\ lastCall' = [NoCall EXCEPT !.valid = TRUE, !.registrar = r,
                             !.channel = ch, !.registered = registrantRan[r],
                             !.owned = plugins[r]]
          /\ seen' = seen
       ELSE
          \E h \in hs :
            \E out \in (IF h.plugin_pointer \in alive
                        THEN {HandleMethodCall(method, arguments, os)}
                        ELSE DanglingOutcomes) :
               /\ lastCall' = Forward(h, r, ch, method, arguments, os, out)
               /\ seen' = IF method = "getPlatformVersion"
                          THEN [seen EXCEPT ![os] = @ \cup {out.responses}]
                          ELSE seen
    /\ UNCHANGED <<pc, cur, plugin, channel, registrantRan, regAlive, plugins,
                   handlers, alive, nextId, initCount, uninitCount>>

Step(rs, ms, as, oss) ==
    \/ \E r \in rs : RegConstructPlugin(r)
    \/ RegCreateChannel
    \/ RegSetHandler
    \/ RegAddPlugin
    \/ RegReturn
    \/ \E r \in rs : DestroyRegistrar(r)
    \/ \E r \in rs, ch \in ChannelNames, m \in ms, a \in as, os \in oss :
          Deliver(r, ch, m, a, os)

\* Lifecycle of every registrar, with a few representative calls.
LifecycleMethods == {"getPlatformVersion", "ble#scan"}
LifecycleArguments == {"null"}
LifecycleOsStates == {os \in OsStates : os.major = 10 \/ os.status < 0}

Next == Step(Registrars, LifecycleMethods, LifecycleArguments, LifecycleOsStates)

Spec == Init /\ [][Next]_vars

\* One engine, every call.
DispatchRegistrars == {r \in Registrars : r <= 1}

NextDispatch == Step(DispatchRegistrars, Methods, Arguments, OsStates)

SpecDispatch == Init /\ [][NextDispatch]_vars

-----------------------------------------------------------------------------
(* Reading a version string back *)

IsDigit(b) == b >= 48 /\ b <= 57

Drop(s, k) == IF k >= Len(s) THEN <<>> ELSE SubSeq(s, k + 1, Len(s))
Take(s, k) == IF k >= Len(s) THEN s ELSE SubSeq(s, 1, k)

RECURSIVE LeadingDigits(_)
LeadingDigits(s) ==
    IF s = <<>> \/ ~IsDigit(s[1]) THEN 0 ELSE 1 + LeadingDigits(Tail(s))

RECURSIVE LeadingWord(_)
LeadingWord(s) ==
    IF s = <<>> \/ s[1] = 32 THEN 0 ELSE 1 + LeadingWord(Tail(s))

RECURSIVE DecimalValue(_)
DecimalValue(d) ==
    IF d = <<>> THEN 0
    ELSE DecimalValue(Take(d, Len(d) - 1)) * 10 + (d[Len(d)] - 48)

\* Parses "<word> <int>.<int> Build <int>".
ParseVersion(s) ==
    LET w  == LeadingWord(s)
        r1 == Drop(s, w + 1)
        n1 == LeadingDigits(r1)
        r2 == Drop(r1, n1 + 1)
        n2 == LeadingDigits(r2)
        r3 == Drop(r2, n2)
        r4 == Drop(r3, 7)
        n3 == LeadingDigits(r4)
    IN [ok |-> /\ w > 0 /\ Len(s) > w
               /\ n1 > 0 /\ Len(r1) > n1 /\ r1[n1 + 1] = 46
               /\ n2 > 0
               /\ Take(r3, 7) = <<32, 66, 117, 105, 108, 100, 32>>
               /\ n3 > 0 /\ n3 = Len(r4),
        word |-> Take(s, w),
        major |-> DecimalValue(Take(r1, n1)),
        minor |-> DecimalValue(Take(r2, n2)),
        build |-> DecimalValue(Take(r4, n3))]

\* "Windows" in ASCII
AsciiWindows == <<87, 105, 110, 100, 111, 119, 115>>

-----------------------------------------------------------------------------
(* Claims about dispatch, checked under SpecDispatch *)

\* C1: a handled "getPlatformVersion" call whose OS query returned 0 with
\* (major, minor, build) answers Success with a string that reads back as
\* "Windows <major>.<minor> Build <build>" with exactly those three values,
\* and answers neither Error nor NotImplemented.
C1_VersionSuccess ==
    (lastCall.handled /\ lastCall.method = "getPlatformVersion"
                      /\ lastCall.os.status = 0)
    => /\ Len(lastCall.responses) = 1
       /\ \A i \in DOMAIN lastCall.responses :
            /\ lastCall.responses[i].kind = "Success"
            /\ \A j \in DOMAIN lastCall.responses[i].value :
                 lastCall.responses[i].value[j] < 128
            /\ LET v == ParseVersion(lastCall.responses[i].value) IN
                 /\ v.ok
                 /\ v.word = AsciiWindows
                 /\ v.major = lastCall.os.major
                 /\ v.minor = lastCall.os.minor
                 /\ v.build = lastCall.os.build

C1_Witness ==
    /\ lastCall.handled /\ lastCall.method = "getPlatformVersion"
    /\ lastCall.os = [status |-> 0, major |-> 6, minor |-> 1, build |-> 7601]
    /\ lastCall.responses =
         <<[kind |-> "Success",
            value |-> <<87, 105, 110, 100, 111, 119, 115, 32, 54, 46, 49, 32,
                        66, 117, 105, 108, 100, 32, 55, 54, 48, 49>>]>>

\* C2: a handled "getPlatformVersion" call whose OS query returned non-zero
\* answers Error("VERSION_ERROR", "Failed to get Windows version.") and no
\* Success.
C2_VersionError ==
    (lastCall.handled /\ lastCall.method = "getPlatformVersion"
                      /\ lastCall.os.status # 0)
    => /\ lastCall.responses =
            <<[kind |-> "Error", code |-> "VERSION_ERROR",
               message |-> "Failed to get Windows version."]>>
       /\ \A i \in DOMAIN lastCall.responses :
            lastCall.responses[i].kind # "Success"

C2_Witness ==
    /\ lastCall.handled /\ lastCall.method = "getPlatformVersion"
    /\ lastCall.os.status = 1
    /\ lastCall.responses[1].kind = "Error"

\* C3: a handled call with any method name other than exactly
\* "getPlatformVersion" answers NotImplemented, whatever the arguments and
\* the OS state, and RtlGetVersion is not called for it.
C3_OtherNotImplemented ==
    (lastCall.handled /\ lastCall.method # "getPlatformVersion")
    => /\ lastCall.responses = <<[kind |-> "NotImplemented"]>>
       /\ ~lastCall.queried

C3_Witness ==
    /\ lastCall.handled /\ lastCall.method = "ble#scan"
    /\ lastCall.arguments = "map" /\ lastCall.os.status # 0
    /\ lastCall.responses = <<[kind |-> "NotImplemented"]>>

\* C4: an Error is answered only by a "getPlatformVersion" call whose OS
\* query failed, and its code is "VERSION_ERROR".
C4_OnlyVersionError ==
    \A i \in DOMAIN lastCall.responses :
        lastCall.responses[i].kind = "Error"
        => /\ lastCall.method = "getPlatformVersion"
           /\ lastCall.os.status # 0
           /\ lastCall.responses[i].code = "VERSION_ERROR"

C4_Witness ==
    /\ lastCall.handled /\ lastCall.method = "getPlatformVersion"
    /\ lastCall.os.status < 0
    /\ lastCall.responses[1].kind = "Error"
    /\ \E os \in OsStates : os.status = 0 /\ seen[os] # {}

PluginState == <<initCount, uninitCount, handlers, alive, plugins, regAlive>>

\* C5: all "getPlatformVersion" calls made under one OS state give the same
\* response, whatever calls came before, and a delivered call changes no
\* plugin state (apartment counts, handlers, live instances, ownership).
C5_Idempotent ==
    /\ [](\A os \in OsStates : Cardinality(seen[os]) <= 1)
    /\ [][lastCall' # lastCall => UNCHANGED PluginState]_vars

C5_Witness ==
    /\ \A os \in OsStates : Cardinality(seen[os]) = 1
    /\ lastCall.handled /\ lastCall.method = "unknownMethod"
    /\ initCount = 1 /\ uninitCount = 0

\* C9: every handled call has sent exactly one response (Success, Error or
\* NotImplemented) when HandleMethodCall returns, and the sink is gone by
\* then, so nothing is left to answer later.
C9_ExactlyOneResponse ==
    lastCall.handled
    => /\ Len(lastCall.responses) = 1
       /\ lastCall.responses[1].kind \in {"Success", "Error", "NotImplemented"}
       /\ lastCall.sink = "destroyed"

C9_Witness ==
    /\ lastCall.handled /\ lastCall.method = ""
    /\ Len(lastCall.responses) = 1
    /\ \E os \in OsStates : os.status # 0 /\ seen[os] # {}
    /\ \E os \in OsStates : os.status = 0 /\ seen[os] # {}

-----------------------------------------------------------------------------
(* Claims about registration and lifetime, checked under Spec *)

\* C6: every construction calls init_apartment once, every destruction
\* calls uninit_apartment once and nothing else calls either, so the
\* initializations not yet released are exactly the live plugin instances,
\* never fewer than zero; constructing and then destroying with no call in
\* between leaves that number as it was.
C6_ApartmentSymmetry ==
    /\ initCount = nextId
    /\ uninitCount = nextId - Cardinality(alive)
    /\ initCount - uninitCount = Cardinality(alive)
    /\ initCount - uninitCount >= 0

C6_Witness ==
    /\ ~lastCall.valid
    /\ pc = "idle"
    /\ nextId = 1 /\ alive = {}
    /\ initCount = 1 /\ uninitCount = 1
    /\ \E r \in Registrars : registrantRan[r] /\ ~regAlive[r]

Registered(r) == registrantRan[r] /\ regAlive[r] /\ cur # r

\* C7: a finished registration has constructed exactly one plugin instance,
\* owned by the registrar, and set exactly one handler on the registrar's
\* messenger, for the channel "flutter_p2p_connection", capturing that
\* instance; every call received on that channel after registration is
\* forwarded, method name unchanged, to that instance and to no other.
C7_RegistrationWiring ==
    /\ Cardinality({r \in Registrars : registrantRan[r]}) = nextId
    /\ \A r \in Registrars :
         Registered(r) =>
           /\ Cardinality(plugins[r]) = 1
           /\ plugins[r] \subseteq alive
           /\ \A r2 \in Registrars : r2 # r => plugins[r2] \cap plugins[r] = {}
           /\ handlers[r] = { [channel |-> "flutter_p2p_connection",
                               plugin_pointer |-> p] : p \in plugins[r] }
    /\ (lastCall.valid /\ lastCall.registered
                       /\ lastCall.channel = "flutter_p2p_connection")
       => /\ lastCall.handled
          /\ lastCall.owned = {lastCall.target}
          /\ lastCall.targetAlive
          /\ lastCall.received = lastCall.method
          /\ Len(lastCall.responses) = 1

C7_Witness ==
    /\ \A r \in Registrars : Registered(r)
    /\ lastCall.handled /\ lastCall.channel = "flutter_p2p_connection"
    /\ lastCall.registrar = 2 /\ lastCall.target \in plugins[2]
    /\ lastCall.target \notin plugins[1]

ChannelExists == channel # NoChannel

\* C8 as stated: while the registrar holds the plugin entry the channel
\* object created in RegisterWithRegistrar exists, and while the channel
\* object exists the plugin instance exists.
C8_Original ==
    /\ \A r \in Registrars :
         plugins[r] # {} => (ChannelExists /\ channel.messenger = r)
    /\ ChannelExists => nextId \in alive

\* C8 amended: while the channel object exists the plugin instance exists;
\* the channel object is destroyed when RegisterWithRegistrar returns, and
\* what lasts as long as the registrar holds the plugin entry is the handler
\* the channel set on the registrar's messenger.
C8_Lifetimes ==
    /\ ChannelExists => nextId \in alive
    /\ pc = "idle" => ~ChannelExists
    /\ \A r \in Registrars :
         plugins[r] # {} =>
           \E h \in handlers[r] :
             h.channel = "flutter_p2p_connection" /\ h.plugin_pointer \in plugins[r]

C8_Witness ==
    /\ pc = "idle" /\ ~ChannelExists
    /\ \E r \in Registrars : plugins[r] # {} /\ handlers[r] # {}
    /\ lastCall.handled

====
